---- MODULE Spec2Model ----
(***************************************************************************)
(* Model of server/server_sandbox/main.py: a bokeh server application that *)
(* streams a noisy sine wave into a rolling ColumnDataSource and keeps a   *)
(* rolling average of the window with an incremental formula.              *)
(*                                                                         *)
(* Numbers.  x is held in tenths (x = 10 is 1.0, the step 0.1 is 1).       *)
(* Amplitudes are held in tenths, sin() and rand() in tenths, so y is in   *)
(* hundredths.  avg is an exact rational <<numerator, denominator>> in     *)
(* lowest terms (Python 3 true division, floating point rounding left      *)
(* out): the incremental formula is evaluated as the code writes it and    *)
(* compared against a full recomputation of the mean.                      *)
(*                                                                         *)
(* bokeh.  curdoc().session_callbacks is the sequence of the registered    *)
(* periodic callbacks; remove_periodic_callback(f) removes every callback  *)
(* object registered for f and raises ValueError when there is none;       *)
(* ColumnDataSource.stream(new, rollover) on numpy columns appends and     *)
(* then, "if rollover and len(data) > rollover", keeps data[-rollover:].   *)
(***************************************************************************)
EXTENDS Integers, Sequences, FiniteSets, TLC

(* ------------------------------ bounds -------------------------------- *)
\* number of samples generated after the seed
MaxAppends == 3
\* largest rollover (capacity) value tried
MaxCap == 3
\* number of positions of each amplitude slider tried (0.1, 0.2, ...)
MaxAmp == 1
\* number of positions of the delay slider tried (10, 20, ...)
MaxDelay == 1
\* number of distinct np.random.rand draws tried (0.0, 0.5, ...)
MaxRand == 2

(* ------------------------- program constants -------------------------- *)
\* x = np.array([1]), in tenths
X0 == 10
\* x_n1 = x_n0 + 0.1, in tenths
XStep == 1
\* amp_sine = 1, in tenths
AmpSine0 == 10
\* amp_rand = 1, in tenths
AmpRand0 == 10
\* rollover = 100
Rollover0 == 100
\* update_delay = 100
UpdateDelay0 == 100
\* Slider(start=10, ..., step=10) of the delay slider
DelayStep == 10

(* --------------------------- value domains ---------------------------- *)
AmpVals == 1..MaxAmp
DelayVals == {DelayStep * k : k \in 1..MaxDelay}
RandVals == {5 * k : k \in 0..(MaxRand - 1)}
PosCaps == 1..MaxCap
AnyCaps == (-1)..MaxCap

\* np.sin at x = 1.0, 1.1, ..., 3.9, rounded to tenths
SinTable ==
  << 8, 9, 9, 10, 10, 10, 10, 10, 10, 9, 9, 9, 8, 7, 7, 6, 5, 4, 3, 2,
     1, 0, -1, -2, -3, -4, -4, -5, -6, -7 >>

np_sin(x) == SinTable[x - X0 + 1]

(* ------------------------- exact rationals ---------------------------- *)
Abs(n) == IF n < 0 THEN -n ELSE n

\* functions, so that their arguments are evaluated once
GCD[a \in Nat, b \in Nat] == IF b = 0 THEN a ELSE GCD[b, a % b]

Normalize[nd \in Int \X Int] ==
  LET n == nd[1]
      d == nd[2]
      g == GCD[Abs(n), Abs(d)]
      s == IF d < 0 THEN -1 ELSE 1
  IN  << (s * n) \div g, (s * d) \div g >>

\* n/d in lowest terms with a positive denominator (d # 0)
Frac(n, d) == Normalize[<< n, d >>]

FracAdd(p, q) == Frac(p[1] * q[2] + q[1] * p[2], p[2] * q[2])

FracMul(p, q) == Frac(p[1] * q[1], p[2] * q[2])

(* ------------------------- sequence helpers --------------------------- *)
RECURSIVE SumSeq(_)
SumSeq(s) == IF s = << >> THEN 0 ELSE Head(s) + SumSeq(Tail(s))

\* Python's data[start:] for any integer start
PySliceFrom(data, start) ==
  LET n == Len(data)
      b == IF start < 0
             THEN (IF n + start < 0 THEN 0 ELSE n + start)
             ELSE (IF start > n THEN n ELSE start)
  IN  SubSeq(data, b + 1, n)

\* np.cumsum(y) / np.arange(1.0, len(y) + 1.0)
CumAvg(y) == [i \in 1..Len(y) |-> Frac(SumSeq(SubSeq(y, 1, i)), i)]

(* ------------------------------- state -------------------------------- *)
VARIABLES
  param_source,       \* [amp_sine, amp_rand, rollover, update_delay]
  data_source,        \* [x, y, avg]: three columns
  session_callbacks,  \* registered periodic callbacks [name, period]
  appended,           \* samples generated since start-up
  lastOp,             \* the handler that ran last
  outcome,            \* how it ended: "ok" or the exception raised
  paused,             \* TRUE from a pause() click that stops to the one that resumes
  N0_read,            \* N0 read by the last _get_new_avg
  y_0_read            \* y_0 read by the last _get_new_avg

vars == << param_source, data_source, session_callbacks, appended, lastOp,
           outcome, paused, N0_read, y_0_read >>

(* --------------------------- initial state ---------------------------- *)
_init_param_source ==
  [amp_sine |-> AmpSine0, amp_rand |-> AmpRand0,
   rollover |-> Rollover0, update_delay |-> UpdateDelay0]

\* _init_data_source seeding two samples, the avg column a running sum
_init_data_source_two ==
  LET x == << X0, X0 + XStep >>
      y == << 10 * np_sin(X0), 10 * np_sin(X0 + XStep) >>
      avg == << Frac(y[1], 1), Frac(y[1] + y[2], 1) >>
  IN  [x |-> x, y |-> y, avg |-> avg]

_init_data_source ==
  LET x == << X0 >>
      y == << 10 * np_sin(X0) >>
      avg == CumAvg(y)
  IN  [x |-> x, y |-> y, avg |-> avg]

\* curdoc().add_periodic_callback(callback, period)
add_periodic_callback(cbs, name, period) ==
  Append(cbs, [name |-> name, period |-> period])

\* remove_periodic_callback removing nothing
remove_periodic_callback_none(cbs, name) == cbs

\* curdoc().remove_periodic_callback(callback): all objects of that callable
remove_periodic_callback(cbs, name) ==
  SelectSeq(cbs, LAMBDA cb : cb.name # name)

IsRegistered(cbs, name) == \E i \in 1..Len(cbs) : cbs[i].name = name

InitWith(rollover) ==
  /\ param_source = [_init_param_source EXCEPT !.rollover = rollover]
  /\ data_source = _init_data_source
  /\ session_callbacks =
       add_periodic_callback(<< >>, "update", _init_param_source.update_delay)
  /\ appended = 0
  /\ lastOp = "init"
  /\ outcome = "ok"
  /\ paused = FALSE
  /\ N0_read = 0
  /\ y_0_read = 0

Init == InitWith(_init_param_source.rollover)

(* ---------------------------- the handlers ---------------------------- *)
\* _get_new_avg testing N0 <= rollover instead of N0 < rollover
_get_new_avg_le(source, y_n1, rollover) ==
  LET avg_n0 == source.avg[Len(source.avg)]
      y_0 == source.y[1]
      N0 == Len(source.x)
      N1 == IF N0 <= rollover THEN N0 + 1 ELSE N0
      dy == IF N0 <= rollover THEN y_n1 ELSE y_n1 - y_0
  IN  FracAdd(FracMul(Frac(N0, N1), avg_n0), Frac(dy, N1))

_get_new_avg(source, y_n1, rollover) ==
  LET avg_n0 == source.avg[Len(source.avg)]
      y_0 == source.y[1]
      N0 == Len(source.x)
      N1 == IF N0 < rollover THEN N0 + 1 ELSE N0
      dy == IF N0 < rollover THEN y_n1 ELSE y_n1 - y_0
  IN  FracAdd(FracMul(Frac(N0, N1), avg_n0), Frac(dy, N1))

\* stream_column keeping one entry more than rollover
stream_column_plus1(col, new, rollover) ==
  LET data == col \o new
  IN  IF rollover # 0 /\ Len(data) > rollover + 1
        THEN PySliceFrom(data, -(rollover + 1))
        ELSE data

\* stream_column keeping the oldest entries instead of the newest
stream_column_head(col, new, rollover) ==
  LET data == col \o new
  IN  IF rollover # 0 /\ Len(data) > rollover
        THEN SubSeq(data, 1, rollover)
        ELSE data

\* stream_column evicting as soon as the column reaches rollover
stream_column_early(col, new, rollover) ==
  LET data == col \o new
  IN  IF rollover # 0 /\ Len(data) >= rollover
        THEN PySliceFrom(data, -(rollover - 1))
        ELSE data

\* stream_column slicing data[rollover:] once the column reaches rollover
stream_column_tail(col, new, rollover) ==
  LET data == col \o new
  IN  IF rollover # 0 /\ Len(data) >= rollover
        THEN PySliceFrom(data, rollover)
        ELSE data

\* one numpy column of ColumnDataSource.stream
stream_column(col, new, rollover) ==
  LET data == col \o new
  IN  IF rollover # 0 /\ Len(data) > rollover
        THEN PySliceFrom(data, -rollover)
        ELSE data

stream(source, additional_data, rollover) ==
  [x |-> stream_column(source.x, additional_data.x, rollover),
   y |-> stream_column(source.y, additional_data.y, rollover),
   avg |-> stream_column(source.avg, additional_data.avg, rollover)]

\* next_x forgetting the step
next_x_same(x_n0) == x_n0

\* x_n1 = x_n0 + 0.1
next_x(x_n0) == x_n0 + XStep

\* the periodic callback, with the np.random.rand draw r
update_draw(r) ==
  /\ IsRegistered(session_callbacks, "update")
  /\ appended < MaxAppends
  /\ lastOp' = "update"
  /\ UNCHANGED << param_source, session_callbacks, paused >>
  /\ IF Len(data_source.x) = 0
       THEN /\ outcome' = "IndexError"
            /\ UNCHANGED << data_source, appended, N0_read, y_0_read >>
       ELSE LET x_n0 == data_source.x[Len(data_source.x)]
                x_n1 == next_x(x_n0)
                y_n1 == param_source.amp_sine * np_sin(x_n1)
                          + param_source.amp_rand * r
                avg_n1 == _get_new_avg(data_source, y_n1,
                                       param_source.rollover)
                additional_data ==
                  [x |-> << x_n1 >>, y |-> << y_n1 >>, avg |-> << avg_n1 >>]
            IN  /\ data_source' =
                     stream(data_source, additional_data,
                            param_source.rollover)
                /\ appended' = appended + 1
                /\ N0_read' = Len(data_source.x)
                /\ y_0_read' = data_source.y[1]
                /\ outcome' = "ok"

update == \E r \in RandVals : update_draw(r)

\* pause() resuming with the start-up period instead of the stored one
pause_stale ==
  /\ lastOp' = "pause"
  /\ outcome' = "ok"
  /\ IF IsRegistered(session_callbacks, "update")
       THEN /\ session_callbacks' =
                 remove_periodic_callback(session_callbacks, "update")
            /\ paused' = TRUE
       ELSE /\ session_callbacks' =
                 add_periodic_callback(session_callbacks, "update",
                                       UpdateDelay0)
            /\ paused' = FALSE
  /\ UNCHANGED << param_source, data_source, appended, N0_read, y_0_read >>

pause ==
  /\ lastOp' = "pause"
  /\ outcome' = "ok"
  /\ IF IsRegistered(session_callbacks, "update")
       THEN /\ session_callbacks' =
                 remove_periodic_callback(session_callbacks, "update")
            /\ paused' = TRUE
       ELSE /\ session_callbacks' =
                 add_periodic_callback(session_callbacks, "update",
                                       param_source.update_delay)
            /\ paused' = FALSE
  /\ UNCHANGED << param_source, data_source, appended, N0_read, y_0_read >>

\* _change_update_delay whose remove_periodic_callback never raises
_change_update_delay_noraise(new) ==
  /\ lastOp' = "_change_update_delay"
  /\ param_source' = [param_source EXCEPT !.update_delay = new]
  /\ session_callbacks' =
       add_periodic_callback(
         remove_periodic_callback(session_callbacks, "update"),
         "update", new)
  /\ outcome' = "ok"
  /\ UNCHANGED << data_source, appended, paused, N0_read, y_0_read >>

\* _change_update_delay re-registering with the period of the old callback
_change_update_delay_oldperiod(new) ==
  /\ lastOp' = "_change_update_delay"
  /\ param_source' = [param_source EXCEPT !.update_delay = new]
  /\ IF IsRegistered(session_callbacks, "update")
       THEN /\ session_callbacks' =
                 add_periodic_callback(
                   remove_periodic_callback(session_callbacks, "update"),
                   "update", param_source.update_delay)
            /\ outcome' = "ok"
       ELSE /\ session_callbacks' = session_callbacks
            /\ outcome' = "ValueError"
  /\ UNCHANGED << data_source, appended, paused, N0_read, y_0_read >>

_change_update_delay(new) ==
  /\ lastOp' = "_change_update_delay"
  /\ param_source' = [param_source EXCEPT !.update_delay = new]
  /\ IF IsRegistered(session_callbacks, "update")
       THEN /\ session_callbacks' =
                 add_periodic_callback(
                   remove_periodic_callback(session_callbacks, "update"),
                   "update", new)
            /\ outcome' = "ok"
       ELSE \* remove_periodic_callback raises, line 135 is not reached
            /\ session_callbacks' = session_callbacks
            /\ outcome' = "ValueError"
  /\ UNCHANGED << data_source, appended, paused, N0_read, y_0_read >>

_change_amp_sine(new) ==
  /\ lastOp' = "_change_amp_sine"
  /\ outcome' = "ok"
  /\ param_source' = [param_source EXCEPT !.amp_sine = new]
  /\ UNCHANGED << data_source, session_callbacks, appended, paused,
                  N0_read, y_0_read >>

_change_amp_rand(new) ==
  /\ lastOp' = "_change_amp_rand"
  /\ outcome' = "ok"
  /\ param_source' = [param_source EXCEPT !.amp_rand = new]
  /\ UNCHANGED << data_source, session_callbacks, appended, paused,
                  N0_read, y_0_read >>

\* the client writes a new rollover into param_source
change_rollover(new) ==
  /\ new # param_source.rollover
  /\ lastOp' = "change_rollover"
  /\ outcome' = "ok"
  /\ param_source' = [param_source EXCEPT !.rollover = new]
  /\ UNCHANGED << data_source, session_callbacks, appended, paused,
                  N0_read, y_0_read >>

DelaySlider == \E new \in DelayVals : _change_update_delay(new)
AmpSineSlider == \E new \in AmpVals : _change_amp_sine(new)
AmpRandSlider == \E new \in AmpVals : _change_amp_rand(new)
RolloverChange == \E new \in PosCaps : change_rollover(new)
RolloverChangeAny == \E new \in AnyCaps : change_rollover(new)

(* -------------------------- specifications ---------------------------- *)
\* the application with the rollover changed to positive values at run time
Next ==
  \/ update
  \/ pause
  \/ DelaySlider
  \/ AmpSineSlider
  \/ AmpRandSlider
  \/ RolloverChange

Spec == Init /\ [][Next]_vars

\* the application with a capacity fixed at start-up
InitFixed == \E c \in PosCaps : InitWith(c)

NextFixed ==
  \/ update
  \/ pause
  \/ DelaySlider
  \/ AmpSineSlider
  \/ AmpRandSlider

SpecFixed == InitFixed /\ [][NextFixed]_vars

\* the same, the periodic callback firing whenever it stays registered
LiveSpecFixed == SpecFixed /\ WF_vars(update)

\* the application with the rollover changed to any value, invalid ones too
NextAny ==
  \/ update
  \/ pause
  \/ DelaySlider
  \/ AmpSineSlider
  \/ AmpRandSlider
  \/ RolloverChangeAny

SpecAny == Init /\ [][NextAny]_vars

(* ------------------------------ helpers ------------------------------- *)
Min(a, b) == IF a < b THEN a ELSE b

LastOf(s) == s[Len(s)]

\* the arithmetic mean of the retained y-values, recomputed in full
MeanOfRetained == Frac(SumSeq(data_source.y), Len(data_source.y))

AppendDone == lastOp = "update" /\ outcome = "ok"

SliderOps ==
  {"_change_update_delay", "_change_amp_sine", "_change_amp_rand",
   "change_rollover"}

(* ------------------------------- claims ------------------------------- *)
\* C1: with a capacity fixed at start-up, in every state the avg of the last
\* stored sample is the arithmetic mean of the y-values retained in the
\* buffer, while the buffer fills and once it is full and evicting.
C1_MeanFixedCapacity ==
  /\ Len(data_source.avg) = Len(data_source.y)
  /\ Len(data_source.y) >= 1
  /\ LastOf(data_source.avg) = MeanOfRetained

\* C1 witness: an append that found the buffer full (so evicted) at capacity 1
\* or more, after an earlier append that filled it.
C1_Witness ==
  /\ AppendDone
  /\ appended >= 2
  /\ N0_read = param_source.rollover
  /\ Len(data_source.y) = param_source.rollover

\* C2: with the capacity changed to other positive values between appends,
\* after every append the avg of the last stored sample times the number of
\* retained samples is the sum of the retained y-values.
C2_MeanAcrossCapacityChanges ==
  AppendDone =>
    LastOf(data_source.avg)[1] * Len(data_source.y)
      = LastOf(data_source.avg)[2] * SumSeq(data_source.y)

\* C3: after every append the number of stored samples is at most the
\* capacity supplied to that append, and the columns x, y and avg have the
\* same length.
C3_BoundedSize ==
  /\ AppendDone => Len(data_source.x) <= param_source.rollover
  /\ Len(data_source.x) = Len(data_source.y)
  /\ Len(data_source.y) = Len(data_source.avg)

\* C3 witness: an append made with a capacity smaller than the length the
\* buffer had before the call.
C3_Witness ==
  /\ AppendDone
  /\ N0_read > param_source.rollover
  /\ Len(data_source.x) = param_source.rollover

\* C4: an append reads N0 and y_oldest from the buffer already shrunk to the
\* capacity: N0 is the smaller of the stored length and the capacity, and
\* y_oldest is the first y of the samples that many from the end.
C4_ShrinkBeforeRead ==
  [][ (lastOp' = "update" /\ outcome' = "ok") =>
        LET n == Len(data_source.y)
            k == Min(n, param_source.rollover)
        IN  /\ N0_read' = k
            /\ y_0_read' = data_source.y[n - k + 1] ]_vars

\* C5: an append made while the capacity is <= 0 ends with the
\* InvalidConfiguration error and leaves the buffer unchanged.
C5_InvalidCapacityRejected ==
  [][ (lastOp' = "update" /\ param_source.rollover <= 0) =>
        /\ outcome' = "InvalidConfiguration"
        /\ data_source' = data_source ]_vars

\* C6: while streaming is paused (from the pause() click that stops it to
\* the one that resumes it) no step changes data_source, whatever handler
\* runs: timer, amplitude sliders, delay slider.
C6_NoMutationWhilePaused ==
  [][ paused => data_source' = data_source ]_vars

\* C6 witness: the delay slider has been moved while paused, after samples
\* were streamed.
C6_Witness ==
  /\ paused
  /\ lastOp = "_change_update_delay"
  /\ appended >= 1

\* C7: in every state at most one periodic callback for update is
\* registered on the document.
C7_SingleDriver ==
  Cardinality({i \in 1..Len(session_callbacks) :
                 session_callbacks[i].name = "update"}) <= 1

\* C7 witness: the delay slider removed and re-registered the callback with a
\* new period, and exactly one callback is registered.
C7_Witness ==
  /\ lastOp = "_change_update_delay"
  /\ outcome = "ok"
  /\ Len(session_callbacks) = 1
  /\ session_callbacks[1].period = param_source.update_delay
  /\ param_source.update_delay # UpdateDelay0

\* C8: the buffer produced at start-up holds exactly one sample, whose avg
\* equals its own y-value.
C8_SeedState ==
  lastOp = "init" =>
    /\ Len(data_source.x) = 1
    /\ Len(data_source.y) = 1
    /\ Len(data_source.avg) = 1
    /\ data_source.avg[1] = << data_source.y[1], 1 >>

\* C8 witness: the state right after start-up, the seed sample at x = 1.
C8_Witness ==
  /\ lastOp = "init"
  /\ appended = 0
  /\ data_source.x[1] = X0

C10_NoRetroactiveRecomputation ==
  [][ /\ lastOp' \in SliderOps => data_source' = data_source
      /\ (lastOp' = "update" /\ outcome' = "ok") =>
           LET k == Len(data_source'.x) - 1
               drop == Len(data_source.x) - k
           IN  /\ k >= 0
               /\ drop >= 0
               /\ \A i \in 1..k :
                    /\ data_source'.x[i] = data_source.x[i + drop]
                    /\ data_source'.y[i] = data_source.y[i + drop]
                    /\ data_source'.avg[i] = data_source.avg[i + drop]
               /\ \E r \in RandVals :
                    LastOf(data_source'.y) =
                      param_source.amp_sine * np_sin(LastOf(data_source'.x))
                        + param_source.amp_rand * r ]_vars

\* C10 witness: an append made after an amplitude slider was moved, with an
\* older sample still retained.
C10_Witness ==
  /\ AppendDone
  /\ param_source.amp_sine # AmpSine0
  /\ Len(data_source.x) >= 2
  /\ appended >= 2

\* C11: with a capacity C fixed at start-up, after k appends the buffer holds
\* the min(k+1, C) most recently generated samples in generation order (the
\* k-th generated sample is the one with x = 1 + 0.1 k); an append evicts
\* only when the buffer was already at capacity, and then only the oldest
\* sample.
C11_FifoWindow ==
  /\ [](LET n == Len(data_source.x)
        IN  /\ n = Min(appended + 1, param_source.rollover)
            /\ \A i \in 1..n :
                 data_source.x[i] = X0 + (appended - n + i) * XStep)
  /\ [][ (lastOp' = "update" /\ outcome' = "ok") =>
           LET kept == IF Len(data_source.x) < param_source.rollover
                         THEN data_source
                         ELSE [x |-> Tail(data_source.x),
                               y |-> Tail(data_source.y),
                               avg |-> Tail(data_source.avg)]
               n == Len(kept.x)
           IN  /\ SubSeq(data_source'.x, 1, n) = kept.x
               /\ SubSeq(data_source'.y, 1, n) = kept.y
               /\ SubSeq(data_source'.avg, 1, n) = kept.avg
               /\ Len(data_source'.x) = n + 1
               /\ Len(data_source'.y) = n + 1
               /\ Len(data_source'.avg) = n + 1 ]_vars

\* C11 witness: capacity 2, the seed evicted by the second append, the
\* buffer holding the two samples generated last.
C11_Witness ==
  /\ AppendDone
  /\ param_source.rollover = 2
  /\ appended = 2
  /\ data_source.x = << X0 + XStep, X0 + 2 * XStep >>

\* C12: a pause() click while the update callback is registered removes it;
\* a click while it is not registered registers it, once, with the period
\* stored in update_delay; every click flips registered/unregistered (so two
\* clicks in a row restore it) and leaves data_source and param_source
\* unchanged.
C12_PauseToggle ==
  [][ lastOp' = "pause" =>
        /\ IF IsRegistered(session_callbacks, "update")
             THEN ~IsRegistered(session_callbacks', "update")
             ELSE session_callbacks' =
                    << [name |-> "update",
                        period |-> param_source.update_delay] >>
        /\ IsRegistered(session_callbacks', "update")
             = ~IsRegistered(session_callbacks, "update")
        /\ data_source' = data_source
        /\ param_source' = param_source ]_vars

\* C12 witness: a click resumed streaming after the delay slider was moved
\* while paused, so the stored period is not the start-up one.
C12_Witness ==
  /\ lastOp = "pause"
  /\ ~paused
  /\ IsRegistered(session_callbacks, "update")
  /\ param_source.update_delay # UpdateDelay0
  /\ appended >= 1

\* C13: with a capacity C fixed at start-up, every append makes the buffer
\* one longer while it is shorter than C and leaves it at C otherwise; once
\* the length is C it stays C; and if streaming stays running from some point
\* on (the callback stays registered) the length eventually reaches C.
C13_FillThenSteady ==
  /\ [][ (lastOp' = "update" /\ outcome' = "ok") =>
           Len(data_source'.x) =
             IF Len(data_source.x) < param_source.rollover
               THEN Len(data_source.x) + 1
               ELSE param_source.rollover ]_vars
  /\ [][ Len(data_source.x) = param_source.rollover =>
           Len(data_source'.x) = param_source'.rollover ]_vars
  /\ (<>[]IsRegistered(session_callbacks, "update")) =>
       <>(Len(data_source.x) = param_source.rollover)

\* C13 witness: capacity 3 reached by two appends and kept by a third.
C13_Witness ==
  /\ AppendDone
  /\ param_source.rollover = 3
  /\ appended = 3
  /\ Len(data_source.x) = 3

\* C14: in every state every registered update callback was registered with
\* the period currently stored in param_source update_delay.
C14_PeriodConsistent ==
  \A i \in 1..Len(session_callbacks) :
    session_callbacks[i].name = "update" =>
      session_callbacks[i].period = param_source.update_delay

\* C14 witness: the timer fired while registered with a period other than the
\* start-up one, set by the delay slider.
C14_Witness ==
  /\ lastOp = "update"
  /\ IsRegistered(session_callbacks, "update")
  /\ param_source.update_delay # UpdateDelay0
  /\ session_callbacks[1].period = param_source.update_delay

\* C15: with positive capacities the buffer holds at least one sample in
\* every state, no update ends with an IndexError on an empty column, and
\* the N0 read by an append (N1 >= N0, the divisor) is at least 1.
C15_NeverEmpty ==
  /\ Len(data_source.x) >= 1
  /\ Len(data_source.y) >= 1
  /\ Len(data_source.avg) >= 1
  /\ outcome # "IndexError"
  /\ lastOp = "update" => N0_read >= 1

\* C15 witness: an append made after the capacity shrank to 1 below the
\* stored length, leaving exactly one sample.
C15_Witness ==
  /\ AppendDone
  /\ param_source.rollover = 1
  /\ N0_read >= 2
  /\ Len(data_source.x) = 1

(* ------------------------------ typing -------------------------------- *)
TypeOK ==
  /\ Len(data_source.x) = Len(data_source.y)
  /\ appended \in 0..MaxAppends
  /\ outcome \in {"ok", "ValueError", "IndexError"}
====
